---- MODULE Spec2Model ----
(***************************************************************************)
(* Dialogue handlers of the writer bot (src/handlers.py) together with the *)
(* repository look-ups of src/database.py and the fallback of src/ai.py.   *)
(*                                                                         *)
(* Text is a sequence of one-letter strings.  The program's phrases are    *)
(* Russian; every Cyrillic letter is written as one symbol of the model    *)
(* ("zh", "ch", "shch", "yo", "ya", "eh" and "j" are single letters, "q"   *)
(* is the soft sign), so that substring and token relations between the    *)
(* phrases are those of the original strings.  Capital letters are the     *)
(* capitalised symbols ("P", "M", ...).                                    *)
(***************************************************************************)
EXTENDS Integers, Sequences, FiniteSets, TLC

VARIABLES
    user_data,    \* context.user_data of the user: the session
    sent_titles,  \* history: titles of the poems delivered since the dialogue began
    update,       \* the inbound update waiting for its handler, or None
    turn,         \* what the last handler run did, or None while an update waits
    authors,      \* the ids of the rows of the authors table
    effective_user,  \* the user whose updates the handlers are being run for
    user_sessions,   \* the sessions of the users, as they were when the
                     \* handlers last ran for them
    _lock,        \* Database._lock: the turn that holds it, or 0
    pc,           \* where each concurrent turn is in its calls
    first         \* history: a turn handled earlier and the session it left

\* the sessions of several users
users_vars == <<effective_user, user_sessions>>

\* the lock of the repository and the turns that use it
lock_vars == <<_lock, pc>>

vars ==
    <<user_data, sent_titles, update, turn, authors, users_vars, lock_vars,
      first>>

\* a reply is a record [kind, arg]: the kind of text sent and what it was built
\* from, a sequence of strings
R(kind, arg) == [kind |-> kind, arg |-> arg]

\* the falsy results: no answer found (None), no such author (None)
NoAnswer == R("", <<>>)
NoAuthor == [id |-> 0, name |-> ""]

(***************************************************************************)
(* str primitives                                                          *)
(***************************************************************************)
LowerChar(c) ==
    CASE c = "P" -> "p"
      [] c = "M" -> "m"
      [] c = "Z" -> "z"
      [] c = "D" -> "d"
      [] c = "N" -> "n"
      [] c = "A" -> "a"
      [] OTHER -> c

\* str.lower()
Lower(s) == [i \in 1..Len(s) |-> LowerChar(s[i])]

\* k in s
Contains(s, k) ==
    \E i \in 0..(Len(s) - Len(k)) : SubSeq(s, i + 1, i + Len(k)) = k

\* s.find(k), 0-based, for a k that occurs in s
Find(s, k) ==
    CHOOSE i \in 0..(Len(s) - Len(k)) :
        /\ SubSeq(s, i + 1, i + Len(k)) = k
        /\ \A j \in 0..(i - 1) : SubSeq(s, j + 1, j + Len(k)) # k

\* s.startswith(k)
StartsWith(s, k) == Len(k) <= Len(s) /\ SubSeq(s, 1, Len(k)) = k

Whitespace == {" ", "\n"}

\* the separators of _tokenize; "<<", ">>" and "--" stand for the two
\* guillemets and the em dash
Punctuation ==
    {",", ".", "!", "?", ";", ":", "\"", "'", "(", ")", "[", "]", "{", "}",
     "<", ">", "<<", ">>", "--", "-"}

\* s.strip(chars)
StripChars(s, chars) ==
    LET keep == {i \in 1..Len(s) : s[i] \notin chars}
    IN  IF keep = {} THEN <<>>
        ELSE LET lo == CHOOSE i \in keep : \A j \in keep : i <= j
                 hi == CHOOSE i \in keep : \A j \in keep : j <= i
             IN  SubSeq(s, lo, hi)

\* the argument of name_candidate.strip(...): the separators and the space
NameStripChars == Punctuation \cup {" "}

\* s.strip()
Strip(s) == StripChars(s, Whitespace)

\* s.split(): the maximal runs of non-whitespace letters, in order
RECURSIVE SplitFrom(_, _, _)
SplitFrom(s, i, cur) ==
    IF i > Len(s)
    THEN IF cur = <<>> THEN <<>> ELSE <<cur>>
    ELSE IF s[i] \in Whitespace
         THEN (IF cur = <<>> THEN <<>> ELSE <<cur>>) \o SplitFrom(s, i + 1, <<>>)
         ELSE SplitFrom(s, i + 1, Append(cur, s[i]))

Split(s) == SplitFrom(s, 1, <<>>)

\* WriterBotHandlers._tokenize
SeparatorsToSpaces(s) ==
    [i \in 1..Len(s) |-> IF s[i] \in Punctuation THEN " " ELSE s[i]]

_tokenize(s) ==
    LET parts == Split(SeparatorsToSpaces(s))
    IN  {parts[i] : i \in 1..Len(parts)}

(***************************************************************************)
(* The phrases of handle_dialog_message                                    *)
(***************************************************************************)
W_privet == <<"p", "r", "i", "v", "e", "t">>
W_zdravstvuj == <<"z", "d", "r", "a", "v", "s", "t", "v", "u", "j">>
W_zdravstvujte == <<"z", "d", "r", "a", "v", "s", "t", "v", "u", "j", "t", "e">>
W_menya_zovut == <<"m", "e", "n", "ya", " ", "z", "o", "v", "u", "t">>
W_menya == <<"m", "e", "n", "ya">>
W_net == <<"n", "e", "t">>
W_nea == <<"n", "e", "a">>
W_ne_hochu == <<"n", "e", " ", "h", "o", "ch", "u">>
W_ne_nado == <<"n", "e", " ", "n", "a", "d", "o">>
W_rasskazhi == <<"r", "a", "s", "s", "k", "a", "zh", "i">>
W_davaj == <<"d", "a", "v", "a", "j">>
W_prochitaj == <<"p", "r", "o", "ch", "i", "t", "a", "j">>
W_da == <<"d", "a">>
W_hochu == <<"h", "o", "ch", "u">>
W_konechno == <<"k", "o", "n", "e", "ch", "n", "o">>
W_aga == <<"a", "g", "a">>
W_eshchyo == <<"e", "shch", "yo">>
W_eshche == <<"e", "shch", "e">>
W_stih == <<"s", "t", "i", "h">>
W_hvatit == <<"h", "v", "a", "t", "i", "t">>
W_dostatochno == <<"d", "o", "s", "t", "a", "t", "o", "ch", "n", "o">>

GreetingPhrases == {W_privet, W_zdravstvuj, W_zdravstvujte}

(***************************************************************************)
(* The repository (src/database.py).  Author 1 is the seeded author, with  *)
(* the first NumPoems poems of the seed; author 2 is an author without     *)
(* poems, characters or FAQ entries; no other author exists.  The program  *)
(* never deletes a row; the store is a file that an outside writer can     *)
(* change (see author_removed).                                            *)
(***************************************************************************)
NumPoems == 2

K_nyane == <<"n", "ya", "n", "e">>
K_stih_nyane == <<"s", "t", "i", "h", " ", "n", "ya", "n", "e">>
K_uznik == <<"u", "z", "n", "i", "k">>
K_stih_uznik == <<"s", "t", "i", "h", " ", "u", "z", "n", "i", "k">>
K_osenq == <<"o", "s", "e", "n", "q">>
K_stih_osenq == <<"s", "t", "i", "h", " ", "o", "s", "e", "n", "q">>
K_kavkaz == <<"k", "a", "v", "k", "a", "z">>
K_stih_kavkaz == <<"s", "t", "i", "h", " ", "k", "a", "v", "k", "a", "z">>
K_zimnee_utro == <<"z", "i", "m", "n", "e", "e", " ", "u", "t", "r", "o">>
K_duehlq == <<"d", "u", "eh", "l", "q">>
K_dantes == <<"d", "a", "n", "t", "e", "s">>
K_kritika == <<"k", "r", "i", "t", "i", "k", "a">>
K_onegin == <<"o", "n", "e", "g", "i", "n">>
K_lenskij == <<"l", "e", "n", "s", "k", "i", "j">>

\* rows of the poems table in insertion order
SeedPoems ==
    << [title |-> "Nyane", keywords |-> {K_nyane, K_stih_nyane}],
       [title |-> "Uznik", keywords |-> {K_uznik, K_stih_uznik}],
       [title |-> "Osenq", keywords |-> {K_osenq, K_stih_osenq}],
       [title |-> "Kavkaz", keywords |-> {K_kavkaz, K_stih_kavkaz}],
       [title |-> "Zimnee utro", keywords |-> {K_zimnee_utro}] >>

\* the titles of SeedPoems in the order of ORDER BY title
TitleOrder == <<"Kavkaz", "Nyane", "Osenq", "Uznik", "Zimnee utro">>

SeedCharacters ==
    << [name |-> "Onegin", keywords |-> {K_onegin}],
       [name |-> "Lenskij", keywords |-> {K_lenskij}] >>

SeedFaq ==
    << [answer |-> "about criticism", keywords |-> {K_kritika}],
       [answer |-> "about the duel", keywords |-> {K_duehlq, K_dantes}] >>

Authors == {1, 2}

AuthorName(author_id) == IF author_id = 1 THEN "Pushkin" ELSE "Other"

\* faulty variant of get_author: a row is returned for every id
get_author_always_found(author_id) ==
    [id |-> author_id, name |-> AuthorName(author_id)]

\* Database.get_author: the author's row, or None
get_author(author_id) ==
    IF author_id \in authors
    THEN [id |-> author_id, name |-> AuthorName(author_id)]
    ELSE NoAuthor

\* SELECT ... FROM poems WHERE author_id = ?
PoemRows(author_id) ==
    IF author_id = 1 THEN SubSeq(SeedPoems, 1, NumPoems) ELSE <<>>

CharacterRows(author_id) == IF author_id = 1 THEN SeedCharacters ELSE <<>>

\* Database.get_faq_entries
get_faq_entries(author_id) == IF author_id = 1 THEN SeedFaq ELSE <<>>

Range(f) == {f[i] : i \in DOMAIN f}

PoemTitles(author_id) == {r.title : r \in Range(PoemRows(author_id))}

\* any(keyword in normalized for keyword in keywords)
AnyKeyword(keywords, normalized) == \E k \in keywords : Contains(normalized, k)

\* the index of the first row, in iteration order, that has a keyword in the
\* text; 0 when no row has one
FirstMatch(rows, normalized) ==
    LET hits == {i \in 1..Len(rows) : AnyKeyword(rows[i].keywords, normalized)}
    IN  IF hits = {} THEN 0 ELSE CHOOSE i \in hits : \A j \in hits : i <= j

\* Database.find_poem_text
find_poem_text(author_id, user_text) ==
    LET rows == PoemRows(author_id)
        i == FirstMatch(rows, Lower(user_text))
    IN  IF i = 0 THEN NoAnswer ELSE R("POEM", <<rows[i].title>>)

\* faulty variant of find_character_insight: the first character is returned
\* whether or not a keyword occurs in the text
find_character_insight_any(author_id, user_text) ==
    LET rows == CharacterRows(author_id)
    IN  IF rows = <<>> THEN NoAnswer ELSE R("CHARACTER", <<rows[1].name>>)

\* Database.find_character_insight
find_character_insight(author_id, user_text) ==
    LET rows == CharacterRows(author_id)
        i == FirstMatch(rows, Lower(user_text))
    IN  IF i = 0 THEN NoAnswer ELSE R("CHARACTER", <<rows[i].name>>)

\* faulty variant of find_faq_answer: no entry is ever found
find_faq_answer_never(author_id, user_text) == NoAnswer

\* faulty variant of find_faq_answer: the last entry that has a keyword in
\* the text answers, not the first
find_faq_answer_last(author_id, user_text) ==
    LET rows == get_faq_entries(author_id)
        hits == {i \in 1..Len(rows) :
                    AnyKeyword(rows[i].keywords, Lower(user_text))}
    IN  IF hits = {} THEN NoAnswer
        ELSE R("FAQ", <<rows[CHOOSE i \in hits : \A j \in hits : j <= i].answer>>)

\* Database.find_faq_answer
find_faq_answer(author_id, user_text) ==
    LET rows == get_faq_entries(author_id)
        i == FirstMatch(rows, Lower(user_text))
    IN  IF i = 0 THEN NoAnswer ELSE R("FAQ", <<rows[i].answer>>)

\* Database.get_poem_titles: the titles sorted
get_poem_titles(author_id) ==
    SelectSeq(TitleOrder, LAMBDA t : t \in PoemTitles(author_id))

\* faulty variant of get_random_poem: the exclusions are ignored
get_random_poem_unfiltered(author_id, exclude_titles) ==
    {r.title : r \in Range(PoemRows(author_id))}

\* Database.get_random_poem: the candidates random.choice draws from; the
\* empty set stands for the result None
get_random_poem(author_id, exclude_titles) ==
    {r.title : r \in {x \in Range(PoemRows(author_id)) :
                         exclude_titles = {} \/ x.title \notin exclude_titles}}

\* an outcome of self._client.responses.create: a response with its
\* output_text, or an APIError with its code ("" stands for no code)
Upstream(status, code, output_text) ==
    [status |-> status, code |-> code, output_text |-> output_text]

\* no upstream call was made
NoUpstream == Upstream("none", "", <<>>)

UpstreamOutcomes ==
    {Upstream("api_error", code, <<>>) : code \in {"", "rate_limit_exceeded"}}
        \cup {Upstream("ok", "", t) :
                 t \in {<<>>, <<" ", "\n">>, <<" ", "o", "k", "\n">>}}

\* faulty variant of generate_reply: an upstream error is passed on as text
generate_reply_error_as_text(upstream) ==
    LET text == Strip(upstream.output_text)
    IN  IF text # <<>> \/ upstream.status = "api_error"
        THEN R("AI_TEXT", text)
        ELSE R("AI_APOLOGY_EMPTY", <<>>)

\* faulty variant of generate_reply: the output is not stripped before the
\* test for an empty text
generate_reply_unstripped(upstream) ==
    IF upstream.status = "api_error"
    THEN R("AI_APOLOGY_ERROR",
           IF upstream.code # "" THEN <<upstream.code>> ELSE <<>>)
    ELSE IF upstream.output_text # <<>>
         THEN R("AI_TEXT", upstream.output_text)
         ELSE R("AI_APOLOGY_EMPTY", <<>>)

\* WriterAI.generate_reply, by the outcome of the upstream call: the apology
\* for an APIError, with the error's code appended when it has one; else the
\* stripped output_text; else the apology for an empty text
generate_reply(upstream) ==
    LET text == Strip(upstream.output_text)
    IN  IF upstream.status = "api_error"
        THEN R("AI_APOLOGY_ERROR",
               IF upstream.code # "" THEN <<upstream.code>> ELSE <<>>)
        ELSE IF text # <<>>
             THEN R("AI_TEXT", text)
             ELSE R("AI_APOLOGY_EMPTY", <<>>)

(***************************************************************************)
(* Inbound updates and their dispatch (src/main.py)                        *)
(***************************************************************************)
W_Pyotr == <<"P", "yo", "t", "r">>
W_kak_dela == <<"k", "a", "k", " ", "d", "e", "l", "a">>
W_planeta == <<"p", "l", "a", "n", "e", "t", "a">>
SP == <<" ">>
Comma == <<",", " ">>

\* the texts a user sends
Messages ==
    { <<"P">> \o Tail(W_privet), W_zdravstvujte,
      W_menya_zovut \o SP \o W_Pyotr,
      <<"M">> \o Tail(W_menya_zovut) \o SP \o W_Pyotr \o <<"!">>,
      W_menya \o SP \o W_Pyotr, W_Pyotr \o Comma \o W_privet,
      <<" ", " ">>, <<"!", "!">>, W_menya_zovut, <<"!", "\n", "!">>,
      W_da \o Comma \o W_hochu, W_net \o Comma \o W_davaj, W_ne_hochu,
      W_planeta, W_eshchyo \o SP \o W_stih, W_net \o Comma \o W_hvatit,
      W_net \o Comma \o W_eshchyo \o SP \o W_stih,
      K_uznik, W_rasskazhi \o SP \o W_stih, W_rasskazhi \o SP \o K_stih_uznik,
      K_onegin \o SP \o K_duehlq, K_uznik \o SP \o K_onegin,
      K_duehlq \o SP \o K_kritika, W_kak_dela }

\* the author ids a dialog:<id> button can carry; 3 is no author
DialogIds == {1, 2, 3}

\* an update: a text message, a dialog:<id> or end button, or a command
U(kind, text, author_id) == [kind |-> kind, text |-> text, author_id |-> author_id]

NoUpdate == U("none", <<>>, 0)

Updates ==
    {U("message", t, 0) : t \in Messages}
        \cup {U("dialog", <<>>, a) : a \in DialogIds}
        \cup {U(c, <<>>, 0) : c \in {"stop", "end", "start", "menu"}}

(***************************************************************************)
(* The session: context.user_data, a dict, is the function from the keys   *)
(* it holds to their values                                                *)
(***************************************************************************)
NoSession == [k \in {} |-> 0]

Has(ud, key) == key \in DOMAIN ud

\* user_data[key] = value
Set(ud, key, value) ==
    [k \in DOMAIN ud \cup {key} |-> IF k = key THEN value ELSE ud[k]]

\* user_data.setdefault(key, value)
SetDefault(ud, key, value) == IF Has(ud, key) THEN ud ELSE Set(ud, key, value)

\* context.user_data.get("dialog_author_id"); 0 stands for None
AuthorId(ud) == IF Has(ud, "dialog_author_id") THEN ud["dialog_author_id"] ELSE 0

\* context.user_data.get("dialog_stage"); "" stands for None
Stage(ud) == IF Has(ud, "dialog_stage") THEN ud["dialog_stage"] ELSE ""

\* context.user_data.get("poems_used", [])
UsedList(ud) == IF Has(ud, "poems_used") THEN ud["poems_used"] ELSE <<>>

\* what a handler run did: the update it handled, the session before it, the
\* texts it passed to the transport, the repository and fallback calls it made,
\* whether it ended by raising (a send that raises delivers nothing) and the
\* outcome of its upstream call
NoTurn ==
    [handler |-> "none", update |-> NoUpdate, before |-> NoSession,
     replies |-> <<>>, calls |-> <<>>, raised |-> FALSE,
     upstream |-> NoUpstream]

\* the end of a handler run
Finish(handler, ud, replies, calls, raised, sent, upstream) ==
    /\ user_data' = ud
    /\ sent_titles' = sent
    /\ update' = NoUpdate
    /\ turn' = [handler |-> handler, update |-> update, before |-> user_data,
                replies |-> replies, calls |-> calls, raised |-> raised,
                upstream |-> upstream]
    /\ UNCHANGED <<authors, users_vars, lock_vars, first>>

\* the end of a handler run that made no upstream call
Done(handler, ud, replies, calls, raised, sent) ==
    Finish(handler, ud, replies, calls, raised, sent, NoUpstream)

\* the titles a delivered reply shows to the user
Shown(reply) == IF reply.kind = "POEM" THEN {reply.arg[1]} ELSE {}

\* the replies of a handler run that reached the user
Delivered(t) ==
    IF t.raised /\ t.replies # <<>>
    THEN SubSeq(t.replies, 1, Len(t.replies) - 1)
    ELSE t.replies

\* a handler run that ends with `await reply_text(reply)`: the transport
\* delivers the reply, or raises
Deliver(handler, ud, reply, calls) ==
    \E delivered \in BOOLEAN :
        Done(handler, ud, <<reply>>, calls, ~delivered,
             IF delivered THEN sent_titles \cup Shown(reply) ELSE sent_titles)

\* the users that write to the bot
Users == {1, 2}

\* the handler runs that can be in progress at once
Tasks == {1, 2}

\* a turn that has not begun
Idle == [op |-> 0, in |-> "idle"]

\* no turn has been remembered
NoFirst == [turn |-> NoTurn, after |-> NoSession]

Init ==
    /\ user_data = NoSession
    /\ sent_titles = {}
    /\ update = NoUpdate
    /\ turn = NoTurn
    /\ authors = Authors
    /\ effective_user = 1
    /\ user_sessions =
           [v \in Users |-> [user_data |-> NoSession, sent_titles |-> {}]]
    /\ _lock = 0
    /\ pc = [t \in Tasks |-> Idle]
    /\ first = NoFirst

\* the transport hands the next update of the user to the application
Receive(u) ==
    /\ update = NoUpdate
    /\ update' = u
    /\ turn' = NoTurn
    /\ UNCHANGED <<user_data, sent_titles, authors, users_vars, lock_vars, first>>

\* WriterBotHandlers.start, for /start and /menu
start ==
    /\ update.kind \in {"start", "menu"}
    /\ Deliver("start", user_data,
               R(IF authors = {} THEN "NO_AUTHORS" ELSE "WELCOME", <<>>),
               <<"list_authors">>)

\* faulty variant of stop_dialog: dialog_stage is not among the keys popped
stop_dialog_keeps_stage ==
    /\ update.kind = "stop"
    /\ \E delivered \in BOOLEAN :
           Done("stop_dialog",
                [k \in DOMAIN user_data \cap {"dialog_stage"} |-> user_data[k]],
                <<R("DIALOG_ENDED", <<>>)>>, <<>>, ~delivered, {})

\* WriterBotHandlers.stop_dialog
stop_dialog ==
    /\ update.kind = "stop"
    /\ \E delivered \in BOOLEAN :
           Done("stop_dialog", NoSession, <<R("DIALOG_ENDED", <<>>)>>, <<>>,
                ~delivered, {})

\* WriterBotHandlers.end: the farewell is sent before the session is cleared
end ==
    /\ update.kind = "end"
    /\ \E delivered \in BOOLEAN :
           IF delivered
           THEN Done("end", NoSession, <<R("FAREWELL", <<>>)>>, <<>>, FALSE, {})
           ELSE Done("end", user_data, <<R("FAREWELL", <<>>)>>, <<>>, TRUE,
                     sent_titles)

\* faulty variant of enter_dialog: a stage the session already has is kept
enter_dialog_keeps_stage ==
    /\ update.kind = "dialog"
    /\ LET author_id == update.author_id
           author == get_author(author_id)
       IN  IF author = NoAuthor
           THEN Deliver("enter_dialog", user_data, R("DIALOG_UNAVAILABLE", <<>>),
                        <<"get_author">>)
           ELSE \E sends \in {"both", "edit raises", "reply raises"} :
                    Done("enter_dialog",
                         Set(SetDefault(Set(Set(user_data,
                             "dialog_author_id", author_id),
                             "dialog_author_name", author.name),
                             "dialog_stage", "ask_name"),
                             "poems_used", <<>>),
                         IF sends = "edit raises"
                         THEN <<R("ENTERED", <<author.name>>)>>
                         ELSE <<R("ENTERED", <<author.name>>), R("GREETING", <<>>)>>,
                         <<"get_author">>, sends # "both", {})

\* faulty variant of enter_dialog: poems_used is defaulted, not assigned
enter_dialog_keeps_poems_used ==
    /\ update.kind = "dialog"
    /\ LET author_id == update.author_id
           author == get_author(author_id)
       IN  IF author = NoAuthor
           THEN Deliver("enter_dialog", user_data, R("DIALOG_UNAVAILABLE", <<>>),
                        <<"get_author">>)
           ELSE \E sends \in {"both", "edit raises", "reply raises"} :
                    Done("enter_dialog",
                         SetDefault(Set(Set(Set(user_data,
                             "dialog_author_id", author_id),
                             "dialog_author_name", author.name),
                             "dialog_stage", "ask_name"),
                             "poems_used", <<>>),
                         IF sends = "edit raises"
                         THEN <<R("ENTERED", <<author.name>>)>>
                         ELSE <<R("ENTERED", <<author.name>>), R("GREETING", <<>>)>>,
                         <<"get_author">>, sends # "both", {})

\* WriterBotHandlers.enter_dialog
enter_dialog ==
    /\ update.kind = "dialog"
    /\ LET author_id == update.author_id
           author == get_author(author_id)
       IN  IF author = NoAuthor
           THEN Deliver("enter_dialog", user_data, R("DIALOG_UNAVAILABLE", <<>>),
                        <<"get_author">>)
           ELSE \E sends \in {"both", "edit raises", "reply raises"} :
                    Done("enter_dialog",
                         Set(Set(Set(Set(user_data,
                             "dialog_author_id", author_id),
                             "dialog_author_name", author.name),
                             "dialog_stage", "ask_name"),
                             "poems_used", <<>>),
                         IF sends = "edit raises"
                         THEN <<R("ENTERED", <<author.name>>)>>
                         ELSE <<R("ENTERED", <<author.name>>), R("GREETING", <<>>)>>,
                         <<"get_author">>, sends # "both", {})

\* faulty variant of IsGreeting: only the first phrase is recognised
IsGreeting_first(text_lower, stage) ==
    text_lower = W_privet /\ stage # "ask_name"

\* faulty variant of IsGreeting: the greeting rule fires in every stage
IsGreeting_any_stage(text_lower, stage) == text_lower \in GreetingPhrases

\* faulty variant of IsGreeting: the text as typed is compared with the
\* phrases, not the lowercased text
IsGreeting_as_typed(text_lower, stage) ==
    update.text \in GreetingPhrases /\ stage # "ask_name"

\* the greeting rule of handle_dialog_message
IsGreeting(text_lower, stage) ==
    text_lower \in GreetingPhrases /\ stage # "ask_name"

\* faulty variant of Greeted: poems_used is assigned, not defaulted
Greeted_reset(ud) ==
    Set(Set(ud, "dialog_stage", "ask_name"), "poems_used", <<>>)

\* faulty variant of Greeted: the greeting rule goes straight to the offer
Greeted_to_offer(ud) ==
    SetDefault(Set(ud, "dialog_stage", "offer_poem"), "poems_used", <<>>)

\* the session after the greeting rule
Greeted(ud) ==
    SetDefault(Set(ud, "dialog_stage", "ask_name"), "poems_used", <<>>)

\* faulty variant of ExtractName: the name is cut from the lowercased text
ExtractName_lower(cleaned) ==
    LET lower_cleaned == Lower(cleaned)
        parts == Split(lower_cleaned)
        candidate ==
            IF Contains(lower_cleaned, W_menya_zovut)
            THEN Strip(SubSeq(lower_cleaned,
                              Find(lower_cleaned, W_menya_zovut)
                                  + Len(W_menya_zovut) + 1,
                              Len(lower_cleaned)))
            ELSE IF StartsWith(lower_cleaned, W_menya) /\ Len(parts) >= 2
                 THEN parts[2]
                 ELSE lower_cleaned
        name_candidate == StripChars(candidate, NameStripChars)
    IN  IF name_candidate = <<>>
        THEN [status |-> "empty", name |-> <<>>]
        ELSE IF Split(name_candidate) = <<>>
             THEN [status |-> "error", name |-> <<>>]
             ELSE [status |-> "ok", name |-> Split(name_candidate)[1]]

\* faulty variant of ExtractName: the whole candidate is the name, not its
\* first word
ExtractName_whole(cleaned) ==
    LET lower_cleaned == Lower(cleaned)
        parts == Split(cleaned)
        candidate ==
            IF Contains(lower_cleaned, W_menya_zovut)
            THEN Strip(SubSeq(cleaned,
                              Find(lower_cleaned, W_menya_zovut)
                                  + Len(W_menya_zovut) + 1,
                              Len(cleaned)))
            ELSE IF StartsWith(lower_cleaned, W_menya) /\ Len(parts) >= 2
                 THEN parts[2]
                 ELSE cleaned
        name_candidate == StripChars(candidate, NameStripChars)
    IN  IF name_candidate = <<>>
        THEN [status |-> "empty", name |-> <<>>]
        ELSE [status |-> "ok", name |-> name_candidate]

\* the name the ask_name rule takes from the stripped text: status "empty"
\* when the candidate is empty after stripping, "error" when
\* name_candidate.split() is empty and [0] raises IndexError
ExtractName(cleaned) ==
    LET lower_cleaned == Lower(cleaned)
        parts == Split(cleaned)
        candidate ==
            IF Contains(lower_cleaned, W_menya_zovut)
            THEN Strip(SubSeq(cleaned,
                              Find(lower_cleaned, W_menya_zovut)
                                  + Len(W_menya_zovut) + 1,
                              Len(cleaned)))
            ELSE IF StartsWith(lower_cleaned, W_menya) /\ Len(parts) >= 2
                 THEN parts[2]
                 ELSE cleaned
        name_candidate == StripChars(candidate, NameStripChars)
    IN  IF name_candidate = <<>>
        THEN [status |-> "empty", name |-> <<>>]
        ELSE IF Split(name_candidate) = <<>>
             THEN [status |-> "error", name |-> <<>>]
             ELSE [status |-> "ok", name |-> Split(name_candidate)[1]]

\* faulty variant of OfferDeclines: the decline words are looked for as
\* substrings of the text, not among its tokens
OfferDeclines_substring(text_lower) ==
    \/ Contains(text_lower, W_net)
    \/ Contains(text_lower, W_nea)
    \/ Contains(text_lower, W_ne_hochu)
    \/ Contains(text_lower, W_ne_nado)

\* faulty variant of OfferDeclines: a text that is also affirmative does not
\* decline
OfferDeclines_unless_accepted(text_lower) ==
    /\ \/ _tokenize(text_lower) \cap {W_net, W_nea} # {}
       \/ Contains(text_lower, W_ne_hochu)
       \/ Contains(text_lower, W_ne_nado)
    /\ ~ \/ \E phrase \in {W_rasskazhi, W_davaj, W_prochitaj} :
                Contains(text_lower, phrase)
         \/ _tokenize(text_lower) \cap {W_da, W_hochu, W_konechno, W_aga} # {}

\* the decline rule of the stage offer_poem
OfferDeclines(text_lower) ==
    \/ _tokenize(text_lower) \cap {W_net, W_nea} # {}
    \/ Contains(text_lower, W_ne_hochu)
    \/ Contains(text_lower, W_ne_nado)

\* faulty variant of OfferAccepts: only the phrases count, not the tokens
OfferAccepts_phrases_only(text_lower) ==
    \E phrase \in {W_rasskazhi, W_davaj, W_prochitaj} :
        Contains(text_lower, phrase)

\* the affirmative rule of the stage offer_poem
OfferAccepts(text_lower) ==
    \/ \E phrase \in {W_rasskazhi, W_davaj, W_prochitaj} :
           Contains(text_lower, phrase)
    \/ _tokenize(text_lower) \cap {W_da, W_hochu, W_konechno, W_aga} # {}

\* faulty variant of AfterAsksMore: "stih" does not count as a request
AfterAsksMore_without_stih(text_lower) ==
    /\ Contains(text_lower, W_eshchyo) \/ Contains(text_lower, W_eshche)
    /\ Contains(text_lower, W_rasskazhi) \/ Contains(text_lower, W_prochitaj)

\* the "more" rule of the stage after_poem
AfterAsksMore(text_lower) ==
    /\ Contains(text_lower, W_eshchyo) \/ Contains(text_lower, W_eshche)
    /\ \/ Contains(text_lower, W_rasskazhi)
       \/ Contains(text_lower, W_prochitaj)
       \/ Contains(text_lower, W_stih)

\* faulty variant of AfterDeclines: only the phrase counts, not the tokens
AfterDeclines_phrase_only(text_lower) == Contains(text_lower, W_ne_nado)

\* the decline rule of the stage after_poem
AfterDeclines(text_lower) ==
    \/ _tokenize(text_lower) \cap {W_net, W_hvatit, W_dostatochno} # {}
    \/ Contains(text_lower, W_ne_nado)

\* the message contains both "rasskazhi" and "stih"
ListingIntent(text_lower) ==
    Contains(text_lower, W_rasskazhi) /\ Contains(text_lower, W_stih)

\* faulty variant of ResolutionChain: the listing intent is tried before the
\* poem keywords
ResolutionChain_listing_first(author_id, text_lower) ==
    LET poem_answer == find_poem_text(author_id, text_lower)
        character_answer == find_character_insight(author_id, text_lower)
        faq_answer == find_faq_answer(author_id, text_lower)
    IN  IF ListingIntent(text_lower)
        THEN [step |-> 2, reply |-> R("LIST", get_poem_titles(author_id)),
              calls |-> <<"find_poem_text", "get_poem_titles">>]
        ELSE IF poem_answer # NoAnswer
        THEN [step |-> 1, reply |-> poem_answer, calls |-> <<"find_poem_text">>]
        ELSE IF character_answer # NoAnswer
        THEN [step |-> 3, reply |-> character_answer,
              calls |-> <<"find_poem_text", "find_character_insight">>]
        ELSE IF faq_answer # NoAnswer
        THEN [step |-> 4, reply |-> faq_answer,
              calls |-> <<"find_poem_text", "find_character_insight",
                          "find_faq_answer">>]
        ELSE [step |-> 5, reply |-> NoAnswer,
              calls |-> <<"find_poem_text", "find_character_insight",
                          "find_faq_answer", "get_author_works",
                          "generate_reply">>]

\* the scripted look-ups of handle_dialog_message, in their order: the step
\* that answers, its reply and the repository calls made; step 5 is the
\* generative fallback
ResolutionChain(author_id, text_lower) ==
    LET poem_answer == find_poem_text(author_id, text_lower)
        character_answer == find_character_insight(author_id, text_lower)
        faq_answer == find_faq_answer(author_id, text_lower)
    IN  IF poem_answer # NoAnswer
        THEN [step |-> 1, reply |-> poem_answer, calls |-> <<"find_poem_text">>]
        ELSE IF ListingIntent(text_lower)
        THEN [step |-> 2, reply |-> R("LIST", get_poem_titles(author_id)),
              calls |-> <<"find_poem_text", "get_poem_titles">>]
        ELSE IF character_answer # NoAnswer
        THEN [step |-> 3, reply |-> character_answer,
              calls |-> <<"find_poem_text", "find_character_insight">>]
        ELSE IF faq_answer # NoAnswer
        THEN [step |-> 4, reply |-> faq_answer,
              calls |-> <<"find_poem_text", "find_character_insight",
                          "find_faq_answer">>]
        ELSE [step |-> 5, reply |-> NoAnswer,
              calls |-> <<"find_poem_text", "find_character_insight",
                          "find_faq_answer", "get_author_works",
                          "generate_reply">>]

\* faulty variant of SendPoem: the title of the poem is not recorded
SendPoem_unrecorded(ud, title, calls) ==
    LET appended == SetDefault(ud, "poems_used", <<>>)
    IN  \E delivered \in BOOLEAN :
            IF delivered
            THEN Done("handle_dialog_message",
                      Set(appended, "dialog_stage", "after_poem"),
                      <<R("POEM", <<title>>)>>, calls, FALSE,
                      sent_titles \cup {title})
            ELSE Done("handle_dialog_message", appended,
                      <<R("POEM", <<title>>)>>, calls, TRUE, sent_titles)

\* the end of _send_random_poem: the title is appended to poems_used, then
\* the poem is sent; the caller sets the stage when the send returns
SendPoem(ud, title, calls) ==
    LET appended == Set(ud, "poems_used", Append(UsedList(ud), title))
    IN  \E delivered \in BOOLEAN :
            IF delivered
            THEN Done("handle_dialog_message",
                      Set(appended, "dialog_stage", "after_poem"),
                      <<R("POEM", <<title>>)>>, calls, FALSE,
                      sent_titles \cup {title})
            ELSE Done("handle_dialog_message", appended,
                      <<R("POEM", <<title>>)>>, calls, TRUE, sent_titles)

\* faulty variant of _send_random_poem: the picker is not asked again after
\* the exclusions left no candidate
_send_random_poem_no_retry(ud, author_id, calls) ==
    LET poems == get_random_poem(author_id, Range(UsedList(ud)))
    IN  IF poems # {}
        THEN \E title \in poems :
                 SendPoem(ud, title, calls \o <<"get_random_poem">>)
        ELSE Deliver("handle_dialog_message", ud, R("NO_POEMS", <<>>),
                     calls \o <<"get_random_poem">>)

\* faulty variant of _send_random_poem: the caller advances the stage also
\* when no poem was found
_send_random_poem_advances(ud, author_id, calls) ==
    LET used == Range(UsedList(ud))
        poems == get_random_poem(author_id, used)
        cleared == Set(ud, "poems_used", <<>>)
        again == get_random_poem(author_id, {})
    IN  IF poems # {}
        THEN \E title \in poems :
                 SendPoem(ud, title, calls \o <<"get_random_poem">>)
        ELSE IF again = {}
        THEN Deliver("handle_dialog_message",
                     Set(cleared, "dialog_stage", "after_poem"),
                     R("NO_POEMS", <<>>),
                     calls \o <<"get_random_poem", "get_random_poem">>)
        ELSE \E title \in again :
                 SendPoem(cleared, title,
                          calls \o <<"get_random_poem", "get_random_poem">>)

\* faulty variant of _send_random_poem: poems_used is not emptied when every
\* poem has been used
_send_random_poem_keeps_used(ud, author_id, calls) ==
    LET used == Range(UsedList(ud))
        poems == get_random_poem(author_id, used)
        again == get_random_poem(author_id, {})
    IN  IF poems # {}
        THEN \E title \in poems :
                 SendPoem(ud, title, calls \o <<"get_random_poem">>)
        ELSE IF again = {}
        THEN Deliver("handle_dialog_message", ud, R("NO_POEMS", <<>>),
                     calls \o <<"get_random_poem", "get_random_poem">>)
        ELSE \E title \in again :
                 SendPoem(ud, title,
                          calls \o <<"get_random_poem", "get_random_poem">>)

\* WriterBotHandlers._send_random_poem and what its two callers do with the
\* result
_send_random_poem(ud, author_id, calls) ==
    LET used == Range(UsedList(ud))
        poems == get_random_poem(author_id, used)
        cleared == Set(ud, "poems_used", <<>>)
        again == get_random_poem(author_id, {})
    IN  IF poems # {}
        THEN \E title \in poems :
                 SendPoem(ud, title, calls \o <<"get_random_poem">>)
        ELSE IF again = {}
        THEN Deliver("handle_dialog_message", cleared, R("NO_POEMS", <<>>),
                     calls \o <<"get_random_poem", "get_random_poem">>)
        ELSE \E title \in again :
                 SendPoem(cleared, title,
                          calls \o <<"get_random_poem", "get_random_poem">>)

\* faulty variant of AskName: a candidate that is empty after stripping is
\* stored as the name
AskName_stores_empty(text) ==
    LET cleaned == Strip(text)
        got == ExtractName(cleaned)
        h == "handle_dialog_message"
    IN  IF cleaned = <<>>
        THEN Deliver(h, user_data, R("REPROMPT_NOT_HEARD", <<>>), <<"get_author">>)
        ELSE IF got.status = "error"
        THEN Done(h, user_data, <<>>, <<"get_author">>, TRUE, sent_titles)
        ELSE Deliver(h,
                     Set(Set(user_data, "user_name", got.name),
                         "dialog_stage", "offer_poem"),
                     R("HELLO", got.name), <<"get_author">>)

\* the ask_name rule of handle_dialog_message
AskName(text) ==
    LET cleaned == Strip(text)
        got == ExtractName(cleaned)
        h == "handle_dialog_message"
    IN  IF cleaned = <<>>
        THEN Deliver(h, user_data, R("REPROMPT_NOT_HEARD", <<>>), <<"get_author">>)
        ELSE IF got.status = "empty"
        THEN Deliver(h, user_data, R("REPROMPT_INTRODUCE", <<>>), <<"get_author">>)
        ELSE IF got.status = "error"
        THEN Done(h, user_data, <<>>, <<"get_author">>, TRUE, sent_titles)
        ELSE Deliver(h,
                     Set(Set(user_data, "user_name", got.name),
                         "dialog_stage", "offer_poem"),
                     R("HELLO", got.name), <<"get_author">>)

\* faulty variant of Resolve: a poem found by its keyword is recorded in
\* poems_used
Resolve_records_poem(author_id, text_lower) ==
    LET chain == ResolutionChain(author_id, text_lower)
        h == "handle_dialog_message"
    IN  IF chain.step = 1
        THEN Deliver(h, Set(user_data, "poems_used",
                            Append(UsedList(user_data), chain.reply.arg[1])),
                     chain.reply, <<"get_author">> \o chain.calls)
        ELSE IF chain.step < 5
        THEN Deliver(h, user_data, chain.reply, <<"get_author">> \o chain.calls)
        ELSE \E upstream \in UpstreamOutcomes, delivered \in BOOLEAN :
                 Finish(h, user_data, <<generate_reply(upstream)>>,
                        <<"get_author">> \o chain.calls, ~delivered,
                        sent_titles, upstream)

\* the content resolution chain and the generative fallback
Resolve(author_id, text_lower) ==
    LET chain == ResolutionChain(author_id, text_lower)
        h == "handle_dialog_message"
    IN  IF chain.step < 5
        THEN Deliver(h, user_data, chain.reply, <<"get_author">> \o chain.calls)
        ELSE \E upstream \in UpstreamOutcomes, delivered \in BOOLEAN :
                 Finish(h, user_data, <<generate_reply(upstream)>>,
                        <<"get_author">> \o chain.calls, ~delivered,
                        sent_titles, upstream)

\* WriterBotHandlers.handle_dialog_message
handle_dialog_message ==
    /\ update.kind = "message"
    /\ LET text == update.text
           text_lower == Lower(text)
           author_id == AuthorId(user_data)
           stage == Stage(user_data)
           h == "handle_dialog_message"
       IN  IF author_id = 0
           THEN Deliver(h, user_data, R("AUTHOR_NOT_SELECTED", <<>>), <<>>)
           ELSE IF get_author(author_id) = NoAuthor
           THEN Deliver(h, user_data, R("AUTHOR_LOAD_FAILED", <<>>),
                        <<"get_author">>)
           ELSE IF IsGreeting(text_lower, stage)
           THEN Deliver(h, Greeted(user_data), R("GREETING", <<>>),
                        <<"get_author">>)
           ELSE IF stage = "ask_name"
           THEN AskName(text)
           ELSE IF stage = "offer_poem" /\ OfferDeclines(text_lower)
           THEN Deliver(h, user_data, R("DECLINE_OFFER", <<>>), <<"get_author">>)
           ELSE IF stage = "offer_poem" /\ OfferAccepts(text_lower)
           THEN _send_random_poem(user_data, author_id, <<"get_author">>)
           ELSE IF stage = "after_poem" /\ AfterAsksMore(text_lower)
           THEN _send_random_poem(user_data, author_id, <<"get_author">>)
           ELSE IF stage = "after_poem" /\ AfterDeclines(text_lower)
           THEN Deliver(h, user_data, R("DECLINE_AFTER", <<>>), <<"get_author">>)
           ELSE Resolve(author_id, text_lower)

Next ==
    \/ \E u \in Updates : Receive(u)
    \/ start
    \/ stop_dialog
    \/ end
    \/ enter_dialog
    \/ handle_dialog_message

Spec == Init /\ [][Next]_vars

(***************************************************************************)
(* The store under an outside writer: the authors table is a table of the  *)
(* SQLite file the program opens, and get_author reads it anew in every    *)
(* turn, so a row can be gone in a turn that follows its deletion.         *)
(***************************************************************************)
\* the texts a user sends while the store changes
StoreMessages ==
    { <<"P">> \o Tail(W_privet), W_menya_zovut \o SP \o W_Pyotr,
      W_da \o Comma \o W_hochu, W_eshchyo \o SP \o W_stih, W_kak_dela,
      K_uznik }

StoreUpdates == {u \in Updates : u.kind = "message" => u.text \in StoreMessages}

\* the row of an author is deleted from the authors table between two turns
author_removed ==
    /\ update = NoUpdate
    /\ \E a \in authors : authors' = authors \ {a}
    /\ turn' = NoTurn
    /\ UNCHANGED <<user_data, sent_titles, update, users_vars, lock_vars, first>>

NextStore ==
    \/ \E u \in StoreUpdates : Receive(u)
    \/ start
    \/ stop_dialog
    \/ end
    \/ enter_dialog
    \/ handle_dialog_message
    \/ author_removed

SpecStore == Init /\ [][NextStore]_vars

(***************************************************************************)
(* Several users: context.user_data is the dict of the user the update     *)
(* came from, so the handlers run on the session of one user at a time     *)
(* while the sessions of the others rest.                                  *)
(***************************************************************************)
\* the texts the users send
UsersMessages == {W_menya_zovut \o SP \o W_Pyotr, W_da \o Comma \o W_hochu}

UsersUpdates ==
    {U("message", t, 0) : t \in UsersMessages}
        \cup {U("dialog", <<>>, 1), U("stop", <<>>, 0)}

\* what each user sends: user 1 everything, user 2 everything but the
\* request for a poem
SentBy(v) ==
    IF v = 1 THEN UsersUpdates
    ELSE {u \in UsersUpdates : u.text # W_da \o Comma \o W_hochu}

\* faulty variant of switch_user: every user gets the same dict
switch_user_shared(v) ==
    /\ update = NoUpdate
    /\ v # effective_user
    /\ effective_user' = v
    /\ turn' = NoTurn
    /\ UNCHANGED <<user_data, sent_titles, user_sessions, update, authors,
                   lock_vars, first>>

\* the next update comes from another user: the handlers get that user's
\* user_data, and the session of the user served so far rests as it is
switch_user(v) ==
    /\ update = NoUpdate
    /\ v # effective_user
    /\ effective_user' = v
    /\ user_sessions' =
           [user_sessions EXCEPT
               ![effective_user] =
                   [user_data |-> user_data, sent_titles |-> sent_titles]]
    /\ user_data' = user_sessions[v].user_data
    /\ sent_titles' = user_sessions[v].sent_titles
    /\ turn' = NoTurn
    /\ UNCHANGED <<update, authors, lock_vars, first>>

NextUsers ==
    \/ \E u \in SentBy(effective_user) : Receive(u)
    \/ \E v \in Users : switch_user(v)
    \/ stop_dialog
    \/ enter_dialog
    \/ handle_dialog_message

SpecUsers == Init /\ [][NextUsers]_vars

(***************************************************************************)
(* The repository lock.  Every method of Database runs its query inside    *)
(* _cursor, which holds Database._lock from entry to exit; a turn of       *)
(* handle_dialog_message that reaches the fallback makes the calls of      *)
(* FallbackTurn in this order.  Turns of different users are taken to      *)
(* overlap freely, as they do when calls are made from several threads.    *)
(***************************************************************************)
FallbackTurn ==
    <<"get_author", "find_poem_text", "find_character_insight",
      "get_faq_entries", "get_author_works", "generate_reply", "reply_text">>

\* Database.get_author_by_name: its own query, then get_author for the row
\* it found, then the return of the author
LookupByName == <<"get_author_by_name", "get_author", "return">>

\* the calls a handler run can be at
Calls == FallbackTurn \o LookupByName

\* the calls that run a query inside _cursor
RepositoryCalls ==
    {"get_author", "find_poem_text", "find_character_insight",
     "get_faq_entries", "get_author_works", "get_author_by_name"}

\* the call a turn is at; "" for a turn that has not begun
OpOf(t) == IF pc[t].op = 0 THEN "" ELSE Calls[pc[t].op]

At(t, op, in) == pc' = [pc EXCEPT ![t] = [op |-> op, in |-> in]]

\* an update arrives and its handler starts, or a caller of the repository
\* looks an author up by name
begin_turn(t) ==
    /\ pc[t] = Idle
    /\ \E entry \in {1, Len(FallbackTurn) + 1} : At(t, entry, "call")
    /\ UNCHANGED <<user_data, sent_titles, update, turn, authors, users_vars,
                   _lock, first>>

\* with self._lock: the turn waits until the lock is free and takes it
_cursor_enter(t) ==
    /\ pc[t].in = "call"
    /\ OpOf(t) \in RepositoryCalls
    /\ _lock = 0
    /\ _lock' = t
    /\ At(t, pc[t].op, "cursor")
    /\ UNCHANGED <<user_data, sent_titles, update, turn, authors, users_vars,
                   first>>

\* faulty variant of _cursor_exit: the cursor of get_author_works is still
\* open, and the lock held, when the turn goes on to generate_reply
_cursor_exit_late(t) ==
    /\ pc[t].in = "cursor"
    /\ _lock' = IF OpOf(t) = "get_author_works" THEN _lock ELSE 0
    /\ At(t, pc[t].op + 1, "call")
    /\ UNCHANGED <<user_data, sent_titles, update, turn, authors, users_vars,
                   first>>

\* the query returned: commit, close the cursor, release the lock
_cursor_exit(t) ==
    /\ pc[t].in = "cursor"
    /\ _lock' = 0
    /\ At(t, pc[t].op + 1, "call")
    /\ UNCHANGED <<user_data, sent_titles, update, turn, authors, users_vars,
                   first>>

\* faulty variant of _cursor_raise: the lock stays held when the query raises
_cursor_raise_keeps_lock(t) ==
    /\ pc[t].in = "cursor"
    /\ pc' = [pc EXCEPT ![t] = Idle]
    /\ UNCHANGED <<user_data, sent_titles, update, turn, authors, users_vars,
                   _lock, first>>

\* the query raised: rollback, close the cursor, release the lock; the
\* exception ends the handler
_cursor_raise(t) ==
    /\ pc[t].in = "cursor"
    /\ _lock' = 0
    /\ pc' = [pc EXCEPT ![t] = Idle]
    /\ UNCHANGED <<user_data, sent_titles, update, turn, authors, users_vars,
                   first>>

\* a rule of the state machine or a scripted look-up answered: the handler
\* replies and returns without the calls that remain
answer(t) ==
    /\ pc[t].in = "call"
    /\ pc[t].op > 1
    /\ pc[t].op <= Len(FallbackTurn)
    /\ OpOf(t) \in RepositoryCalls
    /\ pc' = [pc EXCEPT ![t] = Idle]
    /\ UNCHANGED <<user_data, sent_titles, update, turn, authors, users_vars,
                   _lock, first>>

\* generate_reply hands responses.create to a thread and waits for it
to_thread(t) ==
    /\ pc[t].in = "call"
    /\ OpOf(t) = "generate_reply"
    /\ At(t, pc[t].op, "awaiting")
    /\ UNCHANGED <<user_data, sent_titles, update, turn, authors, users_vars,
                   _lock, first>>

\* responses.create returned or raised
to_thread_return(t) ==
    /\ pc[t].in = "awaiting"
    /\ At(t, pc[t].op + 1, "call")
    /\ UNCHANGED <<user_data, sent_titles, update, turn, authors, users_vars,
                   _lock, first>>

\* the text of the fallback is sent and the handler returns
reply_text(t) ==
    /\ pc[t].in = "call"
    /\ OpOf(t) = "reply_text"
    /\ pc' = [pc EXCEPT ![t] = Idle]
    /\ UNCHANGED <<user_data, sent_titles, update, turn, authors, users_vars,
                   _lock, first>>

\* get_author_by_name found no row and returns None without the second query
row_missing(t) ==
    /\ pc[t].in = "call"
    /\ pc[t].op = Len(FallbackTurn) + 2
    /\ pc' = [pc EXCEPT ![t] = Idle]
    /\ UNCHANGED <<user_data, sent_titles, update, turn, authors, users_vars,
                   _lock, first>>

\* get_author_by_name returns the author that get_author gave
return_author(t) ==
    /\ pc[t].in = "call"
    /\ OpOf(t) = "return"
    /\ pc' = [pc EXCEPT ![t] = Idle]
    /\ UNCHANGED <<user_data, sent_titles, update, turn, authors, users_vars,
                   _lock, first>>

NextLock ==
    \E t \in Tasks :
        \/ begin_turn(t)
        \/ _cursor_enter(t)
        \/ _cursor_exit(t)
        \/ _cursor_raise(t)
        \/ answer(t)
        \/ to_thread(t)
        \/ to_thread_return(t)
        \/ reply_text(t)
        \/ row_missing(t)
        \/ return_author(t)

SpecLock == Init /\ [][NextLock]_vars

\* a query ends, by returning or by raising, and a turn that waits for the
\* lock is not passed over for ever
SpecLockFair ==
    /\ SpecLock
    /\ \A t \in Tasks :
           /\ WF_vars(_cursor_exit(t) \/ _cursor_raise(t))
           /\ SF_vars(_cursor_enter(t))

(***************************************************************************)
(* Two turns compared: a turn of handle_dialog_message is remembered with  *)
(* the session it left, and one more turn is started from a session equal  *)
(* to the one it began with (a chat that is in the same state), with a     *)
(* text that has the same lowercase form.                                  *)
(***************************************************************************)
\* the texts sent while turns are compared; the first two differ in case
PairMessages == {<<"P">> \o Tail(W_privet), W_privet, W_da \o Comma \o W_hochu}

PairUpdates == {U("message", t, 0) : t \in PairMessages} \cup {U("dialog", <<>>, 1)}

\* the turn just handled is kept for comparison, and a text is received in
\* a session equal to the one that turn began with
replay(text) ==
    /\ update = NoUpdate
    /\ turn.handler = "handle_dialog_message"
    /\ first = NoFirst
    /\ Lower(text) = Lower(turn.update.text)
    /\ first' = [turn |-> turn, after |-> user_data]
    /\ user_data' = turn.before
    /\ update' = U("message", text, 0)
    /\ turn' = NoTurn
    /\ UNCHANGED <<sent_titles, authors, users_vars, lock_vars>>

NextPair ==
    \/ \E u \in PairUpdates : first = NoFirst /\ Receive(u)
    \/ \E text \in PairMessages : replay(text)
    \/ enter_dialog
    \/ handle_dialog_message

SpecPair == Init /\ [][NextPair]_vars

(***************************************************************************)

(* Vocabulary of the properties: the turn that has just been handled       *)
(***************************************************************************)
MessageTurn == turn.handler = "handle_dialog_message"

TurnText == turn.update.text

\* the texts a turn can have: a message, or none for the other updates
Texts == Messages \cup PairMessages \cup {<<>>}

\* the lowercased text and its token set, text by text
LowerOf == [t \in Texts |-> Lower(t)]

TokensOf == [t \in Texts |-> _tokenize(Lower(t))]

\* the phrases of the state machine's rules that occur in a text
RulePhrases ==
    {W_ne_hochu, W_ne_nado, W_rasskazhi, W_davaj, W_prochitaj, W_eshchyo,
     W_eshche, W_stih}

PhrasesOf == [t \in Texts |-> {w \in RulePhrases : Contains(Lower(t), w)}]

TurnLower == LowerOf[TurnText]

TurnTokens == TokensOf[TurnText]

TurnPhrases == PhrasesOf[TurnText]

\* the author of the session the turn began with
TurnAuthor == AuthorId(turn.before)

\* the turn began in an active session
ActiveTurn == MessageTurn /\ TurnAuthor # 0

Count(seq, x) == Cardinality({i \in 1..Len(seq) : seq[i] = x})

Called(name) == Count(turn.calls, name) > 0

\* the text the turn passed to the transport
TurnReply == turn.replies[1]

\* the turn came to the content resolution chain
ReachedChain == MessageTurn /\ Called("find_poem_text")

\* some keyword of some row occurs in the lowercased text
Overlaps(rows, text) ==
    \E i \in 1..Len(rows) : \E k \in rows[i].keywords : Contains(Lower(text), k)

\* the kinds of scripted content of an author that a text overlaps; author 0
\* is no author
HitsOf ==
    [t \in Texts |->
        [a \in Authors \cup {0} |->
            {kind \in {"poem", "character", "faq"} :
                Overlaps(CASE kind = "poem" -> PoemRows(a)
                           [] kind = "character" -> CharacterRows(a)
                           [] OTHER -> get_faq_entries(a), t)}]]

PoemHit == "poem" \in HitsOf[TurnText][TurnAuthor]
CharacterHit == "character" \in HitsOf[TurnText][TurnAuthor]
FaqHit == "faq" \in HitsOf[TurnText][TurnAuthor]
ListingHit == {W_rasskazhi, W_stih} \subseteq TurnPhrases

FallbackKinds == {"AI_TEXT", "AI_APOLOGY_ERROR", "AI_APOLOGY_EMPTY"}

\* the state machine answered the turn itself
Intercepted ==
    LET stage == Stage(turn.before)
    IN  \/ TurnLower \in GreetingPhrases /\ stage # "ask_name"
        \/ stage = "ask_name"
        \/ /\ stage = "offer_poem"
           /\ \/ TurnTokens \cap {W_net, W_nea, W_da, W_hochu, W_konechno, W_aga} # {}
              \/ TurnPhrases \cap {W_ne_hochu, W_ne_nado, W_rasskazhi, W_davaj,
                                  W_prochitaj} # {}
        \/ /\ stage = "after_poem"
           /\ \/ TurnTokens \cap {W_net, W_hvatit, W_dostatochno} # {}
              \/ W_ne_nado \in TurnPhrases
              \/ /\ TurnPhrases \cap {W_eshchyo, W_eshche} # {}
                 /\ TurnPhrases \cap {W_rasskazhi, W_prochitaj, W_stih} # {}

(***************************************************************************)
(* C1: a message that reaches the content resolution chain is answered by  *)
(* the first of poem keyword match, listing intent, character keyword      *)
(* match, FAQ keyword match, generative fallback whose condition holds,    *)
(* and no later step is consulted.                                         *)
(***************************************************************************)
C1_FirstMatchWins ==
    ReachedChain =>
        /\ Len(turn.replies) = 1
        /\ IF PoemHit
           THEN /\ TurnReply.kind = "POEM"
                /\ turn.calls = <<"get_author", "find_poem_text">>
           ELSE IF ListingHit
           THEN /\ TurnReply = R("LIST", get_poem_titles(TurnAuthor))
                /\ ~Called("find_character_insight")
                /\ ~Called("find_faq_answer")
                /\ ~Called("generate_reply")
           ELSE IF CharacterHit
           THEN /\ TurnReply.kind = "CHARACTER"
                /\ ~Called("find_faq_answer")
                /\ ~Called("generate_reply")
           ELSE IF FaqHit
           THEN TurnReply.kind = "FAQ" /\ ~Called("generate_reply")
           ELSE TurnReply.kind \in FallbackKinds /\ Called("generate_reply")

\* a message with a poem keyword and the listing intent was answered with the poem
C1_Witness ==
    /\ ReachedChain
    /\ PoemHit /\ ListingHit
    /\ ~turn.raised
    /\ TurnReply = R("POEM", <<"Uznik">>)

(***************************************************************************)
(* C2: generate_reply is invoked in a turn only if the state machine did   *)
(* not answer the turn and no poem keyword, listing intent, character      *)
(* keyword or FAQ keyword matched; it is invoked at most once per turn.    *)
(***************************************************************************)
C2_FallbackOnlyUnmatched ==
    /\ Count(turn.calls, "generate_reply") <= 1
    /\ Called("generate_reply") =>
           /\ ActiveTurn
           /\ ~Intercepted
           /\ ~PoemHit /\ ~ListingHit /\ ~CharacterHit /\ ~FaqHit

\* the fallback answered a turn of the stage after_poem
C2_Witness ==
    /\ Called("generate_reply")
    /\ Stage(turn.before) = "after_poem"
    /\ ~turn.raised
    /\ TurnReply.kind = "AI_TEXT"

(***************************************************************************)
(* C3 as stated: in an active session, in any stage, a message without any *)
(* keyword overlap with the FAQ, poem and character entries of the author  *)
(* reaches the generative fallback exactly once in that turn.              *)
(***************************************************************************)
C3_AnyStageReachesFallback ==
    (ActiveTurn /\ ~PoemHit /\ ~CharacterHit /\ ~FaqHit) =>
        Count(turn.calls, "generate_reply") = 1

(***************************************************************************)
(* C3 amended: in an active session, a message that the state machine does *)
(* not answer itself, that has no keyword overlap with the FAQ, poem and   *)
(* character entries of the author and that does not carry the listing     *)
(* intent reaches the generative fallback exactly once in that turn.       *)
(***************************************************************************)
C3_UnmatchedReachesFallback ==
    (ActiveTurn /\ ~Intercepted /\ ~PoemHit /\ ~CharacterHit /\ ~FaqHit
        /\ ~ListingHit) =>
        /\ Count(turn.calls, "generate_reply") = 1
        /\ turn.replies = <<TurnReply>>
        /\ TurnReply.kind \in FallbackKinds

\* a message without overlaps fell through the stage offer_poem to the fallback
C3_Witness ==
    /\ ActiveTurn
    /\ Stage(turn.before) = "offer_poem"
    /\ ~Intercepted /\ ~PoemHit /\ ~CharacterHit /\ ~FaqHit /\ ~ListingHit
    /\ Count(turn.calls, "generate_reply") = 1

(***************************************************************************)
(* Vocabulary of the poem deliveries                                       *)
(***************************************************************************)
\* the turn ran _send_random_poem
DeliveryTurn == MessageTurn /\ Called("get_random_poem")

\* _send_random_poem emptied poems_used and asked the picker a second time
ExclusionReset == Count(turn.calls, "get_random_poem") = 2

\* the title _send_random_poem passed to the transport
TurnTitle == TurnReply.arg[1]

NoDuplicates(seq) == \A i, j \in 1..Len(seq) : seq[i] = seq[j] => i = j

(***************************************************************************)
(* C4: from an empty exclusion set, for an author with N >= 1 poems, the   *)
(* first N deliveries of _send_random_poem deliver N different poems of    *)
(* the author without an exclusion reset; a delivery resets the exclusions *)
(* exactly when all N poems are in poems_used, and after the reset         *)
(* poems_used holds the delivered title alone.                             *)
(***************************************************************************)
C4_EveryPoemOnceBeforeReset ==
    LET used == UsedList(user_data)
        titles == PoemTitles(TurnAuthor)
        before == UsedList(turn.before)
    IN  /\ NoDuplicates(used)
        /\ Range(used) \subseteq PoemTitles(AuthorId(user_data))
        /\ Len(used) = Cardinality(PoemTitles(AuthorId(user_data))) =>
               Range(used) = PoemTitles(AuthorId(user_data))
        /\ (DeliveryTurn /\ titles # {}) =>
               /\ TurnReply.kind = "POEM"
               /\ ExclusionReset <=> Len(before) = Cardinality(titles)
               /\ IF ExclusionReset
                  THEN used = <<TurnTitle>>
                  ELSE used = Append(before, TurnTitle)
                           /\ TurnTitle \notin Range(before)
               /\ ~turn.raised => TurnTitle \in sent_titles

\* the delivery after all poems were shown reset the exclusions and delivered
\* a poem shown before
C4_Witness ==
    /\ DeliveryTurn
    /\ ~turn.raised
    /\ Len(UsedList(turn.before)) = NumPoems
    /\ Range(UsedList(turn.before)) \subseteq sent_titles
    /\ ExclusionReset
    /\ TurnTitle \in Range(UsedList(turn.before))
    /\ UsedList(user_data) = <<TurnTitle>>

(***************************************************************************)
(* C5: _send_random_poem answers "nothing available" only when the author  *)
(* has no poem; for an author with a poem it sends a poem of the author,   *)
(* whatever poems_used holds, also when it holds every poem.               *)
(***************************************************************************)
C5_FailsOnlyWithoutPoems ==
    /\ (turn.replies # <<>> /\ TurnReply.kind = "NO_POEMS") =>
           DeliveryTurn /\ PoemTitles(TurnAuthor) = {}
    /\ DeliveryTurn =>
           IF PoemTitles(TurnAuthor) = {}
           THEN TurnReply.kind = "NO_POEMS" /\ Stage(user_data) = Stage(turn.before)
           ELSE /\ TurnReply.kind = "POEM"
                /\ TurnTitle \in PoemTitles(TurnAuthor)
                /\ ~turn.raised => Stage(user_data) = "after_poem"

\* a delivery succeeded although poems_used covered every poem
C5_Witness ==
    /\ DeliveryTurn
    /\ Range(UsedList(turn.before)) = PoemTitles(TurnAuthor)
    /\ PoemTitles(TurnAuthor) # {}
    /\ ~turn.raised
    /\ TurnReply.kind = "POEM"

(***************************************************************************)
(* C6 as stated: poems_used never holds a title that was not sent to the   *)
(* user in this session, also when the send of the poem raises.            *)
(***************************************************************************)
C6_UsedTitlesWereSent == Range(UsedList(user_data)) \subseteq sent_titles

(***************************************************************************)
(* C7: in an active session whose stage is not ask_name, a message that is *)
(* a greeting phrase in any letter case is answered with the greeting and  *)
(* the name prompt, sets the stage to ask_name and consults neither the    *)
(* picker, the resolution chain nor the fallback.                          *)
(***************************************************************************)
C7_GreetingRestartsOnboarding ==
    (ActiveTurn /\ Stage(turn.before) # "ask_name"
        /\ TurnLower \in {W_privet, W_zdravstvuj, W_zdravstvujte}) =>
        /\ turn.replies = <<R("GREETING", <<>>)>>
        /\ Stage(user_data) = "ask_name"
        /\ turn.calls = <<"get_author">>

\* a capitalised greeting in the stage after_poem restarted the onboarding
C7_Witness ==
    /\ ActiveTurn
    /\ Stage(turn.before) = "after_poem"
    /\ TurnText = <<"P">> \o Tail(W_privet)
    /\ ~turn.raised
    /\ Stage(user_data) = "ask_name"

\* the turn was answered by the greeting rule
GreetingTurn ==
    /\ ActiveTurn
    /\ Stage(turn.before) # "ask_name"
    /\ TurnLower \in {W_privet, W_zdravstvuj, W_zdravstvujte}
    /\ Stage(user_data) = "ask_name"

IsWord(x) ==
    x # <<>> /\ \A i \in 1..Len(x) : x[i] \notin Whitespace \cup Punctuation

\* the word X of an input "menya zovut X"; <<>> for any other input
IntroducedName(text) ==
    LET n == Len(W_menya_zovut)
    IN  IF /\ Len(text) > n + 1
           /\ Lower(SubSeq(text, 1, n)) = W_menya_zovut
           /\ text[n + 1] = " "
           /\ IsWord(SubSeq(text, n + 2, Len(text)))
        THEN SubSeq(text, n + 2, Len(text))
        ELSE <<>>

C9_NameCaptured ==
    (ActiveTurn /\ Stage(turn.before) = "ask_name"
        /\ IntroducedName(TurnText) # <<>>) =>
        /\ Has(user_data, "user_name")
        /\ user_data["user_name"] = IntroducedName(TurnText)
        /\ Stage(user_data) = "offer_poem"
        /\ turn.replies = <<R("HELLO", IntroducedName(TurnText))>>

\* "menya zovut Pyotr" stored the capitalised name
C9_Witness ==
    /\ ActiveTurn
    /\ Stage(turn.before) = "ask_name"
    /\ TurnText = W_menya_zovut \o SP \o W_Pyotr
    /\ user_data["user_name"] = W_Pyotr
    /\ Stage(user_data) = "offer_poem"

(***************************************************************************)
(* C10 as stated: in the stage ask_name with non-empty input, the stored   *)
(* user_name is the first whitespace-delimited token of the candidate (the *)
(* text after "menya zovut" if present; else the second word if the input  *)
(* starts with "menya" and has two words; else the trimmed input) with the *)
(* surrounding punctuation stripped from that token, so the stored name    *)
(* neither begins nor ends with a punctuation character.                   *)
(***************************************************************************)
StatedCandidate(text) ==
    LET cleaned == Strip(text)
        low == Lower(cleaned)
    IN  IF Contains(low, W_menya_zovut)
        THEN SubSeq(cleaned, Find(low, W_menya_zovut) + Len(W_menya_zovut) + 1,
                    Len(cleaned))
        ELSE IF StartsWith(low, W_menya) /\ Len(Split(cleaned)) >= 2
             THEN Split(cleaned)[2]
             ELSE cleaned

StatedName(text) ==
    LET tokens == Split(StatedCandidate(text))
    IN  IF tokens = <<>> THEN <<>> ELSE StripChars(tokens[1], NameStripChars)

C10_NameIsStrippedToken ==
    (ActiveTurn /\ Stage(turn.before) = "ask_name"
        /\ Stage(user_data) = "offer_poem") =>
        LET name == user_data["user_name"]
        IN  /\ name = StatedName(TurnText)
            /\ name[1] \notin NameStripChars
            /\ name[Len(name)] \notin NameStripChars

(***************************************************************************)
(* C11: in the stage ask_name, an input that is empty or only whitespace,  *)
(* or whose name candidate is empty once the punctuation is stripped, is   *)
(* answered with a reprompt ("not heard" for the blank input, "let us      *)
(* introduce ourselves" for the empty candidate) and the whole session,    *)
(* stage and user_name included, is as it was before the turn.             *)
(***************************************************************************)
\* "blank" for a text that is empty or whitespace, "empty" for a text whose
\* candidate is empty after stripping the punctuation, "name" for the others
NameInputOf ==
    [t \in Texts |->
        IF Strip(t) = <<>> THEN "blank"
        ELSE IF StripChars(StatedCandidate(t), NameStripChars) = <<>>
             THEN "empty"
             ELSE "name"]

C11_BlankNameReprompts ==
    (ActiveTurn /\ Stage(turn.before) = "ask_name"
        /\ NameInputOf[TurnText] # "name") =>
        /\ turn.replies =
               <<R(IF NameInputOf[TurnText] = "blank"
                   THEN "REPROMPT_NOT_HEARD" ELSE "REPROMPT_INTRODUCE", <<>>)>>
        /\ user_data = turn.before
        /\ Stage(user_data) = "ask_name"

\* "menya zovut" without a name, sent after a greeting restarted the
\* onboarding of a user whose name was known, was answered with the reprompt
C11_Witness ==
    /\ ActiveTurn
    /\ Stage(turn.before) = "ask_name"
    /\ TurnText = W_menya_zovut
    /\ Has(turn.before, "user_name")
    /\ ~turn.raised
    /\ turn.replies = <<R("REPROMPT_INTRODUCE", <<>>)>>
    /\ user_data = turn.before

(***************************************************************************)
(* Vocabulary of the stage rules, from the tokens and phrases of the text  *)
(***************************************************************************)
\* the text declines the offer of the stage offer_poem
SaysNoToOffer ==
    \/ TurnTokens \cap {W_net, W_nea} # {}
    \/ TurnPhrases \cap {W_ne_hochu, W_ne_nado} # {}

\* the text is affirmative
SaysYes ==
    \/ TurnTokens \cap {W_da, W_hochu, W_konechno, W_aga} # {}
    \/ TurnPhrases \cap {W_rasskazhi, W_davaj, W_prochitaj} # {}

\* the text asks for one more poem
SaysMore ==
    /\ TurnPhrases \cap {W_eshchyo, W_eshche} # {}
    /\ TurnPhrases \cap {W_rasskazhi, W_prochitaj, W_stih} # {}

\* the text declines in the stage after_poem
SaysEnough ==
    \/ TurnTokens \cap {W_net, W_hvatit, W_dostatochno} # {}
    \/ W_ne_nado \in TurnPhrases

\* the session fields other than the stage and poems_used are as before
SameUserAndAuthor ==
    /\ AuthorId(user_data) = TurnAuthor
    /\ Has(user_data, "user_name") = Has(turn.before, "user_name")
    /\ Has(user_data, "user_name") =>
           user_data["user_name"] = turn.before["user_name"]

(***************************************************************************)
(* C12: in the stage offer_poem, for an author with at least one poem, an  *)
(* affirmative input that is not a decline sends one poem of the author,   *)
(* title and text; poems_used gains the sent title and no other title;     *)
(* when the send returns, the stage is after_poem.                         *)
(***************************************************************************)
C12_AcceptDeliversPoem ==
    (ActiveTurn /\ Stage(turn.before) = "offer_poem" /\ SaysYes
        /\ ~SaysNoToOffer /\ PoemTitles(TurnAuthor) # {}) =>
        /\ DeliveryTurn
        /\ turn.replies = <<R("POEM", <<TurnTitle>>)>>
        /\ TurnTitle \in PoemTitles(TurnAuthor)
        /\ TurnTitle \in Range(UsedList(user_data))
        /\ Range(UsedList(user_data)) \subseteq
               Range(UsedList(turn.before)) \cup {TurnTitle}
        /\ Count(UsedList(user_data), TurnTitle) = 1
        /\ SameUserAndAuthor
        /\ ~turn.raised =>
               /\ Stage(user_data) = "after_poem"
               /\ TurnTitle \in sent_titles

\* "da, hochu" in the stage offer_poem delivered a first poem
C12_Witness ==
    /\ ActiveTurn
    /\ Stage(turn.before) = "offer_poem"
    /\ TurnText = W_da \o Comma \o W_hochu
    /\ UsedList(turn.before) = <<>>
    /\ ~turn.raised
    /\ Stage(user_data) = "after_poem"
    /\ UsedList(user_data) = <<TurnTitle>>
    /\ TurnTitle \in sent_titles

(***************************************************************************)
(* C13: a decline in the stage offer_poem, or a decline in the stage       *)
(* after_poem that does not ask for one more poem, is answered with the    *)
(* decline acknowledgement of the stage; the session (stage, user_name,    *)
(* poems_used and the rest) is as before and the picker is not called.     *)
(***************************************************************************)
C13_DeclineChangesNothing ==
    LET stage == Stage(turn.before)
    IN  (ActiveTurn /\ \/ stage = "offer_poem" /\ SaysNoToOffer
                       \/ stage = "after_poem" /\ SaysEnough /\ ~SaysMore) =>
            /\ turn.replies =
                   <<R(IF stage = "offer_poem"
                       THEN "DECLINE_OFFER" ELSE "DECLINE_AFTER", <<>>)>>
            /\ user_data = turn.before
            /\ ~Called("get_random_poem")

\* "net, hvatit" after a poem was acknowledged and the session stayed as it was
C13_Witness ==
    /\ ActiveTurn
    /\ Stage(turn.before) = "after_poem"
    /\ TurnText = W_net \o Comma \o W_hvatit
    /\ ~turn.raised
    /\ turn.replies = <<R("DECLINE_AFTER", <<>>)>>
    /\ user_data = turn.before
    /\ UsedList(user_data) # <<>>

(***************************************************************************)
(* C14: in the stage after_poem, an input that contains "eshchyo" or       *)
(* "eshche" together with one of "rasskazhi", "prochitaj", "stih" runs the *)
(* poem delivery again, also when the input holds a decline word; the      *)
(* stage stays after_poem and, when the send returns, the delivered title  *)
(* is in poems_used.                                                       *)
(***************************************************************************)
C14_MoreDeliversAgain ==
    (ActiveTurn /\ Stage(turn.before) = "after_poem" /\ SaysMore) =>
        /\ Count(turn.calls, "get_random_poem") \in {1, 2}
        /\ turn.replies = <<R("POEM", <<TurnTitle>>)>>
        /\ TurnTitle \in PoemTitles(TurnAuthor)
        /\ Stage(user_data) = "after_poem"
        /\ SameUserAndAuthor
        /\ ~turn.raised =>
               /\ TurnTitle \in Range(UsedList(user_data))
               /\ TurnTitle \in sent_titles

\* "net, eshchyo stih" after a poem delivered one more poem
C14_Witness ==
    /\ ActiveTurn
    /\ Stage(turn.before) = "after_poem"
    /\ TurnText = W_net \o Comma \o W_eshchyo \o SP \o W_stih
    /\ ~turn.raised
    /\ turn.replies = <<R("POEM", <<TurnTitle>>)>>
    /\ UsedList(user_data) = Append(UsedList(turn.before), TurnTitle)
    /\ Stage(user_data) = "after_poem"

(***************************************************************************)
(* C15: in the stage offer_poem or after_poem, an input that none of the   *)
(* rules in force in that stage matches (the greeting rule and the stage's *)
(* own rules) is answered in the same turn by the content resolution chain *)
(* or the fallback, with one reply, and the session is as before.          *)
(***************************************************************************)
ChainKinds == {"POEM", "LIST", "CHARACTER", "FAQ"} \cup FallbackKinds

C15_FallThroughChangesNothing ==
    (ActiveTurn /\ Stage(turn.before) \in {"offer_poem", "after_poem"}
        /\ ~Intercepted) =>
        /\ ReachedChain
        /\ ~Called("get_random_poem")
        /\ Len(turn.replies) = 1
        /\ TurnReply.kind \in ChainKinds
        /\ user_data = turn.before

\* "uznik" after another poem was answered with the poem by the chain, and
\* poems_used did not gain the title
C15_Witness ==
    /\ ActiveTurn
    /\ Stage(turn.before) = "after_poem"
    /\ TurnText = K_uznik
    /\ "Uznik" \notin Range(UsedList(turn.before))
    /\ ~turn.raised
    /\ turn.replies = <<R("POEM", <<"Uznik">>)>>
    /\ user_data = turn.before

(***************************************************************************)
(* Vocabulary of the fallback: the turn called generate_reply and the      *)
(* upstream call ended as turn.upstream says                               *)
(***************************************************************************)
UpstreamFailed == MessageTurn /\ turn.upstream.status = "api_error"

UpstreamBlank ==
    /\ MessageTurn
    /\ turn.upstream.status = "ok"
    /\ \A i \in 1..Len(turn.upstream.output_text) :
           turn.upstream.output_text[i] \in Whitespace

C17_BlankOutputApologises ==
    UpstreamBlank =>
        /\ turn.replies = <<R("AI_APOLOGY_EMPTY", <<>>)>>
        /\ \A e \in UpstreamOutcomes :
               e.status = "api_error" => generate_reply(e) # TurnReply
        /\ user_data = turn.before

\* an output of whitespace was answered with the "lost in thought" apology
C17_Witness ==
    /\ UpstreamBlank
    /\ turn.upstream.output_text = <<" ", "\n">>
    /\ Stage(turn.before) = "offer_poem"
    /\ ~turn.raised
    /\ turn.replies = <<R("AI_APOLOGY_EMPTY", <<>>)>>
    /\ user_data = turn.before

(***************************************************************************)
(* C18: when the author id of a dialog button, or the author id of the     *)
(* session, has no row in the authors table, enter_dialog and              *)
(* handle_dialog_message reply with their not-found message, look nothing  *)
(* else up, and leave every field of the session as it was.                *)
(***************************************************************************)
\* the turn asked for an author that the store does not hold
AuthorMissing ==
    \/ turn.handler = "enter_dialog" /\ turn.update.author_id \notin authors
    \/ ActiveTurn /\ TurnAuthor \notin authors

C18_MissingAuthorChangesNothing ==
    AuthorMissing =>
        /\ turn.replies =
               <<R(IF turn.handler = "enter_dialog"
                   THEN "DIALOG_UNAVAILABLE" ELSE "AUTHOR_LOAD_FAILED", <<>>)>>
        /\ turn.calls = <<"get_author">>
        /\ user_data = turn.before

\* a message of a user in the stage after_poem, sent after the author's row
\* was deleted, was answered with the not-found message
C18_Witness ==
    /\ ActiveTurn
    /\ TurnAuthor \notin authors
    /\ Stage(turn.before) = "after_poem"
    /\ ~turn.raised
    /\ turn.replies = <<R("AUTHOR_LOAD_FAILED", <<>>)>>
    /\ user_data = turn.before

(***************************************************************************)
(* C19: for an author without poems, a request for a poem (an affirmative, *)
(* non-declining input in the stage offer_poem, a request for one more in  *)
(* the stage after_poem) is answered with the "nothing available" message; *)
(* the handler comes to its send without an error of its own and the stage *)
(* is as before, so offer_poem does not become after_poem.                 *)
(***************************************************************************)
PoemRequest ==
    \/ Stage(turn.before) = "offer_poem" /\ SaysYes /\ ~SaysNoToOffer
    \/ Stage(turn.before) = "after_poem" /\ SaysMore

C19_NoPoemsKeepsStage ==
    (ActiveTurn /\ PoemRequest /\ PoemTitles(TurnAuthor) = {}) =>
        /\ turn.replies = <<R("NO_POEMS", <<>>)>>
        /\ Count(turn.calls, "get_random_poem") = 2
        /\ Stage(user_data) = Stage(turn.before)
        /\ UsedList(user_data) = <<>>
        /\ SameUserAndAuthor

\* "da, hochu" to the author without poems was answered with "nothing
\* available" and the stage stayed offer_poem
C19_Witness ==
    /\ ActiveTurn
    /\ PoemTitles(TurnAuthor) = {}
    /\ Stage(turn.before) = "offer_poem"
    /\ TurnText = W_da \o Comma \o W_hochu
    /\ ~turn.raised
    /\ turn.replies = <<R("NO_POEMS", <<>>)>>
    /\ Stage(user_data) = "offer_poem"

(***************************************************************************)
(* C20 as stated: after stop_dialog or end, from any session, the session  *)
(* holds no author id, stage, user name or poems_used; and a text message  *)
(* that finds no author id in the session is answered with "author not     *)
(* selected" without a look-up in the repository or a call of the          *)
(* fallback.                                                               *)
(***************************************************************************)
DialogKeys ==
    {"dialog_author_id", "dialog_author_name", "dialog_stage", "poems_used",
     "user_name"}

C20_StopEndDestroysSession ==
    /\ turn.handler \in {"stop_dialog", "end"} =>
           DOMAIN user_data \cap DialogKeys = {}
    /\ (MessageTurn /\ TurnAuthor = 0) =>
           /\ turn.replies = <<R("AUTHOR_NOT_SELECTED", <<>>)>>
           /\ turn.calls = <<>>
           /\ user_data = turn.before

(***************************************************************************)
(* C21 as stated: after the command /menu in an active dialogue the        *)
(* session holds no author id, so the next text message is not handled as  *)
(* dialogue with that author.                                              *)
(***************************************************************************)
C21_MenuClearsAuthor ==
    (turn.handler = "start" /\ turn.update.kind = "menu") =>
        AuthorId(user_data) = 0

C26_ExactlyOneReply == MessageTurn => Len(turn.replies) = 1

(***************************************************************************)
(* C27: decline detection is whole-word.  In the stages offer_poem and     *)
(* after_poem a message in which a decline word ("net", "nea", "hvatit",   *)
(* "dostatochno") occurs only inside a longer word, and which contains     *)
(* neither "ne hochu" nor "ne nado", is not answered as a decline.         *)
(***************************************************************************)
DeclineWords == {W_net, W_nea, W_hvatit, W_dostatochno}

\* the decline words that occur in a text as substrings
DeclineInsideOf == [t \in Texts |-> {w \in DeclineWords : Contains(Lower(t), w)}]

\* a decline word occurs in the text, but no token of the text is one
OnlyInsideLongerWord ==
    /\ DeclineInsideOf[TurnText] # {}
    /\ TurnTokens \cap DeclineWords = {}
    /\ TurnPhrases \cap {W_ne_hochu, W_ne_nado} = {}

C27_WholeWordDecline ==
    (ActiveTurn /\ Stage(turn.before) \in {"offer_poem", "after_poem"}
        /\ OnlyInsideLongerWord) =>
        \A i \in 1..Len(turn.replies) :
            turn.replies[i].kind \notin {"DECLINE_OFFER", "DECLINE_AFTER"}

\* "planeta", which holds "net", was sent in the stage offer_poem and went
\* through the scripted look-ups to the generative fallback
C27_Witness ==
    /\ ActiveTurn
    /\ Stage(turn.before) = "offer_poem"
    /\ TurnText = W_planeta
    /\ Called("find_faq_answer")
    /\ TurnReply.kind \in FallbackKinds
    /\ user_data = turn.before

(***************************************************************************)
(* C28: a greeting phrase received while the stage is already ask_name     *)
(* does not trigger the greeting rule.  The name rule handles it: the      *)
(* greeting word as typed is stored as user_name, the stage becomes        *)
(* offer_poem and poems_used is untouched.                                 *)
(***************************************************************************)
C28_GreetingInAskNameIsName ==
    (ActiveTurn /\ Stage(turn.before) = "ask_name"
        /\ TurnLower \in GreetingPhrases) =>
        /\ turn.replies = <<R("HELLO", TurnText)>>
        /\ Has(user_data, "user_name")
        /\ user_data["user_name"] = TurnText
        /\ Stage(user_data) = "offer_poem"
        /\ Has(user_data, "poems_used") = Has(turn.before, "poems_used")
        /\ UsedList(user_data) = UsedList(turn.before)
        /\ AuthorId(user_data) = TurnAuthor

\* "Privet" was sent in the stage ask_name by a user who had been shown a
\* poem, and was taken as the name
C28_Witness ==
    /\ ActiveTurn
    /\ Stage(turn.before) = "ask_name"
    /\ TurnText = <<"P">> \o Tail(W_privet)
    /\ UsedList(turn.before) # <<>>
    /\ Stage(user_data) = "offer_poem"
    /\ user_data["user_name"] = <<"P">> \o Tail(W_privet)
    /\ UsedList(user_data) = UsedList(turn.before)

(***************************************************************************)
(* C29: find_faq_answer returns, for a message that has a keyword of some  *)
(* FAQ entry as a substring, the answer of the first entry in iteration    *)
(* order that has such a keyword, and None when no entry has one (the      *)
(* turn then goes on to the generative fallback).                          *)
(***************************************************************************)
\* the FAQ entry of an author that has a keyword in the lowercased text
\* while no entry before it has one; empty when no entry has a keyword
FaqFirstOf ==
    [t \in Texts |->
        [a \in Authors \cup {0} |->
            LET rows == get_faq_entries(a)
                Matches(i) == \E k \in rows[i].keywords : Contains(LowerOf[t], k)
            IN  {i \in 1..Len(rows) :
                    Matches(i) /\ \A j \in 1..(i - 1) : ~Matches(j)}]]

C29_FirstFaqEntryAnswers ==
    (MessageTurn /\ Called("find_faq_answer")) =>
        LET entry == FaqFirstOf[TurnText][TurnAuthor]
            rows == get_faq_entries(TurnAuthor)
        IN  IF entry = {}
            THEN Called("generate_reply") /\ TurnReply.kind \in FallbackKinds
            ELSE /\ ~Called("generate_reply")
                 /\ \E i \in entry : turn.replies = <<R("FAQ", <<rows[i].answer>>)>>

\* "duehlq kritika" has a keyword of both entries; the entry about
\* criticism is the first in the table and answers
C29_Witness ==
    /\ MessageTurn
    /\ Called("find_faq_answer")
    /\ TurnText = K_duehlq \o SP \o K_kritika
    /\ turn.replies = <<R("FAQ", <<"about criticism">>)>>

(***************************************************************************)
(* C30: in the stage offer_poem an input that satisfies both the decline   *)
(* rule and the affirmative rule (token "net" and phrase "davaj") is a     *)
(* decline: no poem is delivered, get_random_poem is not called and the    *)
(* stage stays offer_poem.                                                 *)
(***************************************************************************)
C30_DeclineBeatsAccept ==
    (ActiveTurn /\ Stage(turn.before) = "offer_poem"
        /\ TurnLower \notin GreetingPhrases /\ SaysNoToOffer /\ SaysYes) =>
        /\ turn.replies = <<R("DECLINE_OFFER", <<>>)>>
        /\ ~Called("get_random_poem")
        /\ Stage(user_data) = "offer_poem"
        /\ user_data = turn.before

\* "net, davaj" was sent in the stage offer_poem to the author who has
\* poems, and was declined
C30_Witness ==
    /\ ActiveTurn
    /\ TurnAuthor = 1
    /\ Stage(turn.before) = "offer_poem"
    /\ TurnText = W_net \o Comma \o W_davaj
    /\ turn.replies = <<R("DECLINE_OFFER", <<>>)>>
    /\ Stage(user_data) = "offer_poem"

(***************************************************************************)
(* C23: under any interleaving of the turns of different users, a turn or  *)
(* command of one user never changes the session of another user, and the  *)
(* session a user's turn starts from is the one that user's last turn      *)
(* left: a session changes only in a handler run for its own user.         *)
(***************************************************************************)
\* the session of a user
SessionOf(v) ==
    IF v = effective_user THEN user_data ELSE user_sessions[v].user_data

C23_SessionsIsolated ==
    [][/\ \A v \in Users :
              SessionOf(v)' # SessionOf(v) =>
                  /\ effective_user = v
                  /\ effective_user' = v
                  /\ turn'.handler # "none"
       /\ turn'.handler # "none" =>
              /\ effective_user' = effective_user
              /\ turn'.before = SessionOf(effective_user)]_vars

\* user 2 ended a dialogue with /stop while the session of user 1 rested
\* in the stage after_poem with a poem recorded
C23_Witness ==
    /\ effective_user = 2
    /\ turn.handler = "stop_dialog"
    /\ AuthorId(turn.before) = 1
    /\ user_data = NoSession
    /\ Stage(SessionOf(1)) = "after_poem"
    /\ UsedList(SessionOf(1)) # <<>>

(***************************************************************************)
(* C24: the generative fallback is never called while a lock is held.  A   *)
(* turn that is calling generate_reply, or waiting in it, does not hold    *)
(* Database._lock, the only lock of the program, so the other turn can     *)
(* take the lock for its repository reads meanwhile.                       *)
(***************************************************************************)
C24_FallbackOutsideLock ==
    \A t \in Tasks : OpOf(t) = "generate_reply" => _lock # t

\* turn 1 waits for the upstream service while turn 2 holds the lock inside
\* a repository read
C24_Witness ==
    /\ pc[1] = [op |-> 6, in |-> "awaiting"]
    /\ pc[2].in = "cursor"
    /\ OpOf(2) = "find_poem_text"
    /\ _lock = 2

(***************************************************************************)
(* C25 as stated: two turns started from equal session state, equal author *)
(* content and equal lowercased input produce the same reply and the same  *)
(* resulting session state.                                                *)
(***************************************************************************)
\* the turn just handled began as the remembered turn did and has the same
\* lowercased text
EqualStart ==
    /\ first # NoFirst
    /\ MessageTurn
    /\ turn.before = first.turn.before
    /\ TurnLower = LowerOf[first.turn.update.text]

Stages == {"ask_name", "offer_poem", "after_poem"}

C31_AuthorIffStage ==
    /\ AuthorId(user_data) # 0 <=> Stage(user_data) \in Stages
    /\ Has(user_data, "dialog_stage") => Stage(user_data) \in Stages

\* /stop ended a dialogue that had come to the stage after_poem: the author
\* and the stage went together
C31_Witness ==
    /\ turn.handler = "stop_dialog"
    /\ AuthorId(turn.before) = 1
    /\ Stage(turn.before) = "after_poem"
    /\ AuthorId(user_data) = 0
    /\ ~Has(user_data, "dialog_stage")

(***************************************************************************)
(* C32: the stage advances along ask_name -> offer_poem -> after_poem.     *)
(* offer_poem is entered only from ask_name by a name that was captured,   *)
(* after_poem only from offer_poem by a poem that was delivered, and the   *)
(* only step back among the stages is to ask_name, by the greeting rule    *)
(* or by enter_dialog; after_poem never goes to offer_poem.                *)
(***************************************************************************)
\* the handler run changed the stage into the given one
Entered(stage) ==
    /\ turn.handler # "none"
    /\ Stage(user_data) = stage
    /\ Stage(turn.before) # stage

C32_StageOrder ==
    /\ Entered("offer_poem") =>
           /\ MessageTurn
           /\ Stage(turn.before) = "ask_name"
           /\ Len(turn.replies) = 1
           /\ TurnReply.kind = "HELLO"
           /\ Has(user_data, "user_name")
    /\ Entered("after_poem") =>
           /\ MessageTurn
           /\ Stage(turn.before) = "offer_poem"
           /\ Called("get_random_poem")
           /\ ~turn.raised
           /\ Len(turn.replies) = 1
           /\ TurnReply.kind = "POEM"
    /\ Entered("ask_name") =>
           \/ turn.handler = "enter_dialog"
           \/ /\ MessageTurn
              /\ TurnLower \in GreetingPhrases
              /\ turn.replies = <<R("GREETING", <<>>)>>

\* a greeting in the stage after_poem took the dialogue back to ask_name
C32_Witness ==
    /\ MessageTurn
    /\ Stage(turn.before) = "after_poem"
    /\ Entered("ask_name")
    /\ turn.replies = <<R("GREETING", <<>>)>>
    /\ UsedList(user_data) # <<>>

(***************************************************************************)
(* C33: in every reachable state where the stage is offer_poem or          *)
(* after_poem, user_name is set to a non-empty string that contains no     *)
(* whitespace.                                                             *)
(***************************************************************************)
C33_NameIsOneWord ==
    Stage(user_data) \in {"offer_poem", "after_poem"} =>
        /\ Has(user_data, "user_name")
        /\ user_data["user_name"] # <<>>
        /\ \A i \in 1..Len(user_data["user_name"]) :
               user_data["user_name"][i] \notin Whitespace

\* "Pyotr, privet" was sent in the stage ask_name: the first word, with its
\* comma, became the name
C33_Witness ==
    /\ MessageTurn
    /\ Stage(turn.before) = "ask_name"
    /\ TurnText = W_Pyotr \o Comma \o W_privet
    /\ Stage(user_data) = "offer_poem"
    /\ user_data["user_name"] = W_Pyotr \o <<",">>

(***************************************************************************)
(* C34: with a static repository whose poem titles are unique per author,  *)
(* at every turn boundary poems_used holds no title twice, holds only      *)
(* titles of poems of the current author, and has at most as many entries  *)
(* as the author has poems.                                                *)
(***************************************************************************)
C34_UsedWithinAuthorsPoems ==
    LET used == UsedList(user_data)
        titles == PoemTitles(AuthorId(user_data))
    IN  /\ \A i, j \in 1..Len(used) : used[i] = used[j] => i = j
        /\ \A i \in 1..Len(used) : used[i] \in titles
        /\ Len(used) <= Cardinality(titles)

\* every poem of the author has been delivered once: poems_used is full
C34_Witness ==
    /\ MessageTurn
    /\ Called("get_random_poem")
    /\ AuthorId(user_data) = 1
    /\ Len(UsedList(user_data)) = Cardinality(PoemTitles(1))
    /\ Len(UsedList(turn.before)) = Cardinality(PoemTitles(1)) - 1
    /\ Cardinality(PoemTitles(1)) > 1

(***************************************************************************)
(* C35: two consecutive poem deliveries of the picker in a dialogue        *)
(* deliver the same title only if the second one reset the exclusions, and *)
(* after a delivery that reset them poems_used holds exactly the title     *)
(* just delivered.  The title of a delivery is the last entry of           *)
(* poems_used and stays so until the next delivery; a delivery without     *)
(* reset picks a title that is not in poems_used.                          *)
(***************************************************************************)
\* _send_random_poem picked a poem in the turn
PickerTurn ==
    /\ MessageTurn
    /\ Called("get_random_poem")
    /\ Len(turn.replies) = 1
    /\ TurnReply.kind = "POEM"

\* the picker was asked twice: the exclusions were reset
ResetTurn == PickerTurn /\ Count(turn.calls, "get_random_poem") = 2

PickedTitle == TurnReply.arg[1]

C35_RepeatOnlyAfterReset ==
    /\ (MessageTurn /\ ~Called("get_random_poem")) =>
           UsedList(user_data) = UsedList(turn.before)
    /\ PickerTurn =>
           LET used == UsedList(turn.before)
           IN  /\ (used # <<>> /\ used[Len(used)] = PickedTitle) => ResetTurn
               /\ ~ResetTurn =>
                      /\ PickedTitle \notin Range(used)
                      /\ UsedList(user_data) = Append(used, PickedTitle)
               /\ ResetTurn => UsedList(user_data) = <<PickedTitle>>

\* the delivery before this one delivered the same title, and this one
\* reset the exclusions
C35_Witness ==
    /\ ResetTurn
    /\ Len(UsedList(turn.before)) > 1
    /\ UsedList(turn.before)[Len(UsedList(turn.before))] = PickedTitle
    /\ PickedTitle \in sent_titles
    /\ UsedList(user_data) = <<PickedTitle>>

(***************************************************************************)
(* C36: in every reachable state at a turn boundary where the stage is     *)
(* after_poem, poems_used is not empty: a poem was delivered since the     *)
(* dialogue was entered.                                                   *)
(***************************************************************************)
C36_AfterPoemHasUsed ==
    Stage(user_data) = "after_poem" =>
        /\ Has(user_data, "poems_used")
        /\ user_data["poems_used"] # <<>>

\* the first poem of a dialogue was delivered: the stage became after_poem
\* and poems_used holds its title
C36_Witness ==
    /\ PickerTurn
    /\ ~ResetTurn
    /\ Stage(turn.before) = "offer_poem"
    /\ UsedList(turn.before) = <<>>
    /\ Stage(user_data) = "after_poem"
    /\ user_data["poems_used"] = <<PickedTitle>>

(***************************************************************************)
(* C37: the repository lock is used without deadlock.  No Database         *)
(* operation takes Database._lock while it holds it (get_author_by_name    *)
(* calls get_author after it released the lock), the lock is released      *)
(* when a query raises, and so every repository call made by concurrent    *)
(* turns completes in the end.                                             *)
(***************************************************************************)
\* the turn is about to make a repository call, or is inside it
Calling(t, i) == pc[t].op = i /\ Calls[i] \in RepositoryCalls

\* the lock is held only by a turn that is inside a cursor, and only one
\* turn is inside a cursor
LockMatchesCursors ==
    \A t \in Tasks : pc[t].in = "cursor" <=> _lock = t

====
